---- MODULE Spec2Model ----
(***************************************************************************)
(* Model of the gossip-glomers node (app/src/main.rs): the main loop that  *)
(* decodes one frame at a time from stdin and Node::step, the match over   *)
(* MessageBody that mutates the Node and writes at most one reply frame.   *)
(*                                                                         *)
(* u32 values are modelled with WidthBits bits instead of 32 so that the   *)
(* largest value fits the model checker's integers; all arithmetic on them *)
(* goes through AddOne, which overflows at U32Max exactly as u32 does at   *)
(* 2^32 - 1: a panic when the build checks overflow (cargo's dev profile), *)
(* a wrap to 0 when it does not (the release profile).                     *)
(***************************************************************************)
EXTENDS Integers, Sequences, FiniteSets, TLC

\* ---------------------------------------------------------------- bounds
\* Number of input frames the main loop consumes in a run of the model.
MaxFrames == 3
\* Width, in bits, of the modelled u32.
WidthBits == 2

U32Max == 2 ^ WidthBits - 1

\* ------------------------------------------------- input value domains
\* The envelope of a request: who sent it and the msg_id the sender chose.
\* Init also ranges over the msg_id one below the largest u32, because it adds
\* to its msg_id twice.
Stamps == {<<"c1", 0>>, <<"c2", U32Max>>}
InitStamps == Stamps \cup {<<"c1", U32Max - 1>>}
NodeIds == {"n1", "n2"}
NodeLists == {<<"n1", "n2">>}
Echoes == {"", "hi"}
Values == {0, 1}
Topologies == {[n1 |-> <<"n2">>], [n1 |-> <<"n1", "n2">>, n2 |-> <<"n1">>]}

VARIABLES
    id,               \* Node.id
    neighbors,        \* Node.neighbors
    next_msg_id,      \* Node.next_msg_id : Option<u32>, <<>> is None, <<v>> is Some(v)
    messages,         \* Node.messages
    output,           \* frames written to and flushed through stdout, in order
    input,            \* the frames main's loop has pulled from stdin so far, in order
    status,           \* "running", "exited" (stdin exhausted) or the panic that aborted the process
    ulid_calls,       \* number of identifiers the external Ulid generator has handed out
    overflow_checks   \* whether the build panics on integer overflow (dev) or wraps (release)

vars == <<id, neighbors, next_msg_id, messages, output, input, status,
          ulid_calls, overflow_checks>>

node == <<id, neighbors, next_msg_id, messages>>

\* ----------------------------------------------------------- MessageBody
Init_(msg_id, node_id, node_ids) ==
    [type |-> "init", msg_id |-> msg_id, node_id |-> node_id, node_ids |-> node_ids]

InitOk(msg_id, in_reply_to) ==
    [type |-> "init_ok", msg_id |-> msg_id, in_reply_to |-> in_reply_to]

EchoOk(msg_id, in_reply_to, echo) ==
    [type |-> "echo_ok", msg_id |-> msg_id, in_reply_to |-> in_reply_to, echo |-> echo]

Echo(msg_id, echo) ==
    [type |-> "echo", msg_id |-> msg_id, echo |-> echo]

Generate(msg_id) ==
    [type |-> "generate", msg_id |-> msg_id]

GenerateOk(msg_id, in_reply_to, gid) ==
    [type |-> "generate_ok", msg_id |-> msg_id, in_reply_to |-> in_reply_to, id |-> gid]

Broadcast(msg_id, msg) ==
    [type |-> "broadcast", msg_id |-> msg_id, message |-> msg]

BroadcastOk(msg_id, in_reply_to) ==
    [type |-> "broadcast_ok", msg_id |-> msg_id, in_reply_to |-> in_reply_to]

Read(msg_id) ==
    [type |-> "read", msg_id |-> msg_id]

ReadOk(msg_id, in_reply_to, msgs) ==
    [type |-> "read_ok", msg_id |-> msg_id, in_reply_to |-> in_reply_to, messages |-> msgs]

Topology(msg_id, topology) ==
    [type |-> "topology", msg_id |-> msg_id, topology |-> topology]

TopologyOk(msg_id, in_reply_to) ==
    [type |-> "topology_ok", msg_id |-> msg_id, in_reply_to |-> in_reply_to]

Message(src, dest, body) ==
    [src |-> src, dest |-> dest, body |-> body]

\* The frames stdin can deliver that decode into a Message: the requests of the
\* clients and, from a peer node, one reply of each kind.
Requests ==
    {Message(st[1], "n1", Init_(st[2], n, l)) : st \in InitStamps, n \in NodeIds, l \in NodeLists}
    \cup {Message(st[1], "n1", Echo(st[2], e)) : st \in Stamps, e \in Echoes}
    \cup {Message(st[1], "n1", Generate(st[2])) : st \in Stamps}
    \cup {Message(st[1], "n1", Broadcast(st[2], v)) : st \in Stamps, v \in Values}
    \cup {Message(st[1], "n1", Read(st[2])) : st \in Stamps}
    \cup {Message(st[1], "n1", Topology(st[2], t)) : st \in Stamps, t \in Topologies}

Acks ==
    {Message("n2", "n1", b) :
        b \in {InitOk(0, 0), EchoOk(0, 0, "hi"), GenerateOk(0, 0, "1"), BroadcastOk(0, 0),
               ReadOk(0, 0, <<1>>), TopologyOk(0, 0)}}

Frames == Requests \cup Acks

\* A frame that does not decode into a Message: its tag is not one of the schema's.
Malformed == Message("c1", "n1", [type |-> "gossip"])

FramesOf(type) == {m \in Frames : m.body.type = type}

\* ------------------------------------------------------------- helpers
None == <<>>
Some(v) == <<v>>

\* Option::unwrap_or
UnwrapOr(opt, default) == IF opt = None THEN default ELSE opt[1]

\* u32 `a + 1`: overflows when a is the largest u32.
Overflows(a) == a = U32Max
AddOne(a) == (a + 1) % (U32Max + 1)

\* HashMap::get
Get(map, key) == IF key \in DOMAIN map THEN Some(map[key]) ELSE None

\* Crockford base32, the alphabet of Ulid's to_string.
Base32 == <<"0", "1", "2", "3", "4", "5", "6", "7", "8", "9", "A", "B", "C", "D", "E", "F",
            "G", "H", "J", "K", "M", "N", "P", "Q", "R", "S", "T", "V", "W", "X", "Y", "Z">>

RECURSIVE UlidToString(_)
UlidToString(u) ==
    IF u < 32 THEN Base32[u + 1]
    ELSE UlidToString(u \div 32) \o Base32[(u % 32) + 1]

\* Ulid::new(): the external generator, assumed to return a value it has not returned before.
UlidNew == ulid_calls + 1

\* ------------------------------------------------------------ Node::step
\* The panics the program can abort with.
OverflowPanic == "attempt to add with overflow"
WritePanic == "Failed to write JSON"
ParsePanic == "Failed to parse JSON"

\* The frame is pulled from stdin, decoded and handed to step (main's loop body).
Decode(m) ==
    /\ status = "running"
    /\ Len(input) < MaxFrames
    /\ input' = Append(input, m)
    /\ UNCHANGED overflow_checks

\* The tail every replying arm shares: serialize the reply to stdout, write the
\* newline, flush, then next_msg_id = Some(next_msg_id.unwrap_or(0) + 1). The
\* arguments are the reply and the Node fields as the arm left them before the write.
\* WriteThenBump that puts the reply in front of the frames already written.
WriteThenBumpReordered(reply, idv, nbs, nid, msgs) ==
    /\ id' = idv
    /\ neighbors' = nbs
    /\ messages' = msgs
    /\ \E written \in BOOLEAN :
         IF ~written
         THEN /\ output' = output
              /\ next_msg_id' = nid
              /\ status' = WritePanic
         ELSE /\ output' = <<reply>> \o output
              /\ IF Overflows(UnwrapOr(nid, 0)) /\ overflow_checks
                 THEN /\ next_msg_id' = nid
                      /\ status' = OverflowPanic
                 ELSE /\ next_msg_id' = Some(AddOne(UnwrapOr(nid, 0)))
                      /\ status' = status

WriteThenBump(reply, idv, nbs, nid, msgs) ==
    /\ id' = idv
    /\ neighbors' = nbs
    /\ messages' = msgs
    /\ \E written \in BOOLEAN :
         IF ~written
         THEN /\ output' = output
              /\ next_msg_id' = nid
              /\ status' = WritePanic
         ELSE /\ output' = Append(output, reply)
              /\ IF Overflows(UnwrapOr(nid, 0)) /\ overflow_checks
                 THEN /\ next_msg_id' = nid
                      /\ status' = OverflowPanic
                 ELSE /\ next_msg_id' = Some(AddOne(UnwrapOr(nid, 0)))
                      /\ status' = status

\* InitReply that is built before the node takes its new id.
InitReplyBeforeAssignment(m) ==
    Message(id, m.src, InitOk(m.body.msg_id, m.body.msg_id))

InitReply(m) ==
    Message(m.body.node_id, m.src, InitOk(m.body.msg_id, m.body.msg_id))

StepInit ==
    \E m \in FramesOf("init") :
        /\ Decode(m)
        /\ UNCHANGED ulid_calls
        /\ IF Overflows(m.body.msg_id) /\ overflow_checks
           THEN /\ status' = OverflowPanic
                /\ UNCHANGED <<node, output>>
           ELSE WriteThenBump(InitReply(m), m.body.node_id, m.body.node_ids,
                              Some(AddOne(m.body.msg_id)), messages)

\* EchoReply with in_reply_to drawn from the counter instead of the request.
EchoReplyCounterCorrelated(m) ==
    Message(id, m.src, EchoOk(m.body.msg_id, UnwrapOr(next_msg_id, 0), m.body.echo))

EchoReply(m) ==
    Message(id, m.src, EchoOk(m.body.msg_id, m.body.msg_id, m.body.echo))

StepEcho ==
    \E m \in FramesOf("echo") :
        /\ Decode(m)
        /\ UNCHANGED ulid_calls
        /\ WriteThenBump(EchoReply(m), id, neighbors, next_msg_id, messages)

\* GenerateReply that hands out the first identifier again.
GenerateReplyStale(m) ==
    Message(id, m.src, GenerateOk(UnwrapOr(next_msg_id, 0), m.body.msg_id, UlidToString(1)))

GenerateReply(m) ==
    Message(id, m.src,
            GenerateOk(UnwrapOr(next_msg_id, 0), m.body.msg_id, UlidToString(UlidNew)))

StepGenerate ==
    \E m \in FramesOf("generate") :
        /\ Decode(m)
        /\ ulid_calls' = ulid_calls + 1
        /\ WriteThenBump(GenerateReply(m), id, neighbors, next_msg_id, messages)

\* BroadcastPush that keeps messages free of duplicates.
BroadcastPushUnique(m) ==
    IF \E i \in DOMAIN messages : messages[i] = m.body.message
    THEN messages
    ELSE Append(messages, m.body.message)

\* BroadcastPush that puts the newest value first.
BroadcastPushFront(m) == <<m.body.message>> \o messages

BroadcastPush(m) == Append(messages, m.body.message)

\* BroadcastReply that passes the value on to the first recorded neighbor.
BroadcastReplyGossiped(m) ==
    IF neighbors # <<>>
    THEN Message(id, neighbors[1], Broadcast(UnwrapOr(next_msg_id, 0), m.body.message))
    ELSE Message(id, m.src, BroadcastOk(UnwrapOr(next_msg_id, 0), m.body.msg_id))

BroadcastReply(m) ==
    Message(id, m.src, BroadcastOk(UnwrapOr(next_msg_id, 0), m.body.msg_id))

StepBroadcast ==
    \E m \in FramesOf("broadcast") :
        /\ Decode(m)
        /\ UNCHANGED ulid_calls
        /\ WriteThenBump(BroadcastReply(m), id, neighbors, next_msg_id, BroadcastPush(m))

ReadReply(m) ==
    Message(id, m.src, ReadOk(UnwrapOr(next_msg_id, 0), m.body.msg_id, messages))

\* StepRead that hands the values over and forgets them.
StepReadDraining ==
    \E m \in FramesOf("read") :
        /\ Decode(m)
        /\ UNCHANGED ulid_calls
        /\ WriteThenBump(ReadReply(m), id, neighbors, next_msg_id, <<>>)

StepRead ==
    \E m \in FramesOf("read") :
        /\ Decode(m)
        /\ UNCHANGED ulid_calls
        /\ WriteThenBump(ReadReply(m), id, neighbors, next_msg_id, messages)

\* TopologyNeighbors that keeps the old neighbors when the mapping has no entry.
TopologyNeighborsKept(m) ==
    LET found == Get(m.body.topology, id)
    IN  IF found # None THEN found[1] ELSE neighbors

TopologyNeighbors(m) ==
    LET found == Get(m.body.topology, id)
    IN  IF found # None THEN found[1] ELSE <<>>

TopologyReply(m) ==
    Message(id, m.src, TopologyOk(UnwrapOr(next_msg_id, 0), m.body.msg_id))

StepTopology ==
    \E m \in FramesOf("topology") :
        /\ Decode(m)
        /\ UNCHANGED ulid_calls
        /\ WriteThenBump(TopologyReply(m), id, TopologyNeighbors(m), next_msg_id, messages)

\* The six arms `MessageBody::XOk { .. } => {}`.
OkTypes == {"init_ok", "echo_ok", "generate_ok", "broadcast_ok", "read_ok", "topology_ok"}

\* Discard that draws a message id for the frame it drops.
DiscardCounting(m) ==
    /\ Decode(m)
    /\ next_msg_id' = Some(AddOne(UnwrapOr(next_msg_id, 0)))
    /\ UNCHANGED <<id, neighbors, messages, output, status, ulid_calls>>

Discard(m) ==
    /\ Decode(m)
    /\ UNCHANGED <<node, output, status, ulid_calls>>

StepInitOk == \E m \in FramesOf("init_ok") : Discard(m)
StepEchoOk == \E m \in FramesOf("echo_ok") : Discard(m)
StepGenerateOk == \E m \in FramesOf("generate_ok") : Discard(m)
StepBroadcastOk == \E m \in FramesOf("broadcast_ok") : Discard(m)
StepReadOk == \E m \in FramesOf("read_ok") : Discard(m)
StepTopologyOk == \E m \in FramesOf("topology_ok") : Discard(m)

\* ------------------------------------------------------------------ main
\* ParseFail that drops the frame it cannot decode and carries on.
ParseFailSkipping ==
    /\ status = "running"
    /\ Len(input) < MaxFrames
    /\ input' = Append(input, Malformed)
    /\ UNCHANGED <<node, output, status, ulid_calls, overflow_checks>>

\* The next frame does not decode into a Message: input.expect panics.
ParseFail ==
    /\ status = "running"
    /\ Len(input) < MaxFrames
    /\ input' = Append(input, Malformed)
    /\ status' = ParsePanic
    /\ UNCHANGED <<node, output, ulid_calls, overflow_checks>>

\* stdin is exhausted: the for loop ends and main returns.
Eof ==
    /\ status = "running"
    /\ status' = "exited"
    /\ UNCHANGED <<node, output, input, ulid_calls, overflow_checks>>

Init ==
    /\ id = ""
    /\ neighbors = <<>>
    /\ next_msg_id = None
    /\ messages = <<>>
    /\ output = <<>>
    /\ input = <<>>
    /\ status = "running"
    /\ ulid_calls = 0
    /\ overflow_checks \in BOOLEAN

Next ==
    \/ StepInit
    \/ StepInitOk
    \/ StepEcho
    \/ StepEchoOk
    \/ StepGenerate
    \/ StepGenerateOk
    \/ StepBroadcast
    \/ StepBroadcastOk
    \/ StepRead
    \/ StepReadOk
    \/ StepTopology
    \/ StepTopologyOk
    \/ ParseFail
    \/ Eof

Spec == Init /\ [][Next]_vars

\* The process is scheduled and stdin is a finite stream: the blocking read in
\* main's loop returns the next frame or the end of the input.
FairSpec == Spec /\ WF_vars(Next)

\* ================================================================ claims
Last(s) == s[Len(s)]

\* This step pulled a frame of the given type and handed it to step.
Handles(type) == Len(input') = Len(input) + 1 /\ Last(input').body.type = type

\* This step wrote exactly one frame to stdout.
Replied == Len(output') = Len(output) + 1 /\ SubSeq(output', 1, Len(output)) = output

\* The step's write to stdout failed, which the program does not survive.
WriteFailed == status' = WritePanic

RequestTypes == {"init", "echo", "generate", "broadcast", "read", "topology"}

OkOf(type) == type \o "_ok"

Counter == UnwrapOr(next_msg_id, 0)

\* C1: after an Init with msg_id m, the replies that follow it (up to the next
\* InitOk) carry msg_id m + 1, m + 2, ... in the order they were written.
C1_ReplyIdsCountFromInit ==
    \A i \in DOMAIN output :
        output[i].body.type = "init_ok" =>
            \A j \in (i + 1)..Len(output) :
                (\A k \in (i + 1)..j : output[k].body.type # "init_ok") =>
                    output[j].body.msg_id = output[i].body.msg_id + (j - i)

\* C2: no step the process survives lowers next_msg_id (an unset counter counts
\* as 0), whatever frame it handles, a repeated Init included.
C2_CounterNeverDecreases == [][status' = "running" => Counter' >= Counter]_vars

\* C3: every reply other than InitOk carries the value next_msg_id had when the
\* request was handled (0 if unset), and the counter is that value plus one afterwards.
C3_ReplyIdFromCounter ==
    [][\A t \in RequestTypes \ {"init"} :
          (Handles(t) /\ Replied) =>
              /\ Last(output').body.msg_id = Counter
              /\ next_msg_id' = Some(Counter + 1)]_vars

\* C4: handling Init{msg_id: m, node_id: n, node_ids: L} writes exactly one reply,
\* InitOk with msg_id = m and in_reply_to = m, and leaves id = n and neighbors = L.
C4_InitReplyAndState ==
    [][(Handles("init") /\ ~WriteFailed) =>
          LET b == Last(input').body
          IN  /\ Replied
              /\ Last(output').body = InitOk(b.msg_id, b.msg_id)
              /\ id' = b.node_id
              /\ neighbors' = b.node_ids]_vars

\* C5: handling a request of any of the six kinds writes exactly one reply, of the
\* matching Ok kind, whose in_reply_to is the request's msg_id.
C5_OneMatchingReplyPerRequest ==
    [][\A t \in RequestTypes :
          (Handles(t) /\ ~WriteFailed) =>
              /\ Replied
              /\ Last(output').body.type = OkOf(t)
              /\ Last(output').body.in_reply_to = Last(input').body.msg_id]_vars

\* C6: handling Echo{msg_id: k, echo: s}, before or after Init, writes an EchoOk
\* with echo = s and in_reply_to = k.
C6_EchoRoundTrip ==
    [][(Handles("echo") /\ ~WriteFailed) =>
          /\ Replied
          /\ Last(output').body.type = "echo_ok"
          /\ Last(output').body.echo = Last(input').body.echo
          /\ Last(output').body.in_reply_to = Last(input').body.msg_id]_vars

C6_Witness ==
    /\ Len(input) >= 2
    /\ \E i \in 1..(Len(input) - 1) : input[i].body.type = "init"
    /\ Last(input).body.type = "echo"
    /\ Last(input).body.echo = "hi"
    /\ Len(output) >= 2
    /\ Last(output).body.type = "echo_ok"
    /\ Last(output).body.echo = "hi"

\* The values a sequence holds, each with the number of times it occurs.
BagOf(seq) ==
    [v \in {seq[i] : i \in DOMAIN seq} |-> Cardinality({i \in DOMAIN seq : seq[i] = v})]

\* The values of the Broadcast requests among the given frames, in order.
RECURSIVE BroadcastValues(_)
BroadcastValues(frames) ==
    IF frames = <<>> THEN <<>>
    ELSE LET rest == BroadcastValues(SubSeq(frames, 1, Len(frames) - 1))
         IN  IF Last(frames).body.type = "broadcast"
             THEN Append(rest, Last(frames).body.message)
             ELSE rest

\* C7: a Read is answered with a ReadOk whose messages, as a multiset, are exactly
\* the values of the Broadcast requests handled before it, duplicates included.
C7_ReadReturnsBroadcasts ==
    [][(Handles("read") /\ ~WriteFailed) =>
          /\ Replied
          /\ Last(output').body.type = "read_ok"
          /\ BagOf(Last(output').body.messages) = BagOf(BroadcastValues(input))]_vars

C7_Witness ==
    /\ Len(input) = 3
    /\ input[1].body.type = "broadcast"
    /\ input[2].body.type = "broadcast"
    /\ input[1].body.message = input[2].body.message
    /\ input[3].body.type = "read"
    /\ Len(output) = 3
    /\ output[3].body.type = "read_ok"
    /\ Len(output[3].body.messages) = 2

C9_AcksChangeNothing ==
    [][\A t \in OkTypes : Handles(t) => UNCHANGED <<node, output, status>>]_vars

C9_Witness ==
    /\ Len(input) = 3
    /\ input[1].body.type = "init"
    /\ input[2].body.type = "broadcast"
    /\ input[3].body.type \in OkTypes
    /\ Len(output) = 2
    /\ next_msg_id # None
    /\ messages # <<>>

\* C10: no two GenerateOk replies the node has written carry the same id.
C10_GeneratedIdsDistinct ==
    \A i, j \in DOMAIN output :
        (i < j /\ output[i].body.type = "generate_ok" /\ output[j].body.type = "generate_ok")
            => output[i].body.id # output[j].body.id

C10_Witness ==
    /\ Len(output) = 3
    /\ \A i \in DOMAIN output : output[i].body.type = "generate_ok"

\* The request frames among the given frames, in order.
RequestFrames(frames) == SelectSeq(frames, LAMBDA f : f.body.type \in RequestTypes)

\* All the frames but the last.
Front(frames) == SubSeq(frames, 1, Len(frames) - 1)

\* C11: the k-th frame on stdout is the reply to the k-th request pulled from stdin,
\* and by the time a frame is pulled every request before it has its reply on stdout.
C11_RepliesInRequestOrder ==
    LET asked == RequestFrames(input)
    IN  /\ Len(RequestFrames(Front(input))) <= Len(output)
        /\ Len(output) <= Len(asked)
        /\ \A k \in DOMAIN output :
              /\ output[k].body.type = OkOf(asked[k].body.type)
              /\ output[k].body.in_reply_to = asked[k].body.msg_id
              /\ output[k].dest = asked[k].src

C11_Witness ==
    /\ Len(input) = 3
    /\ input[1].body.type = "echo" /\ input[1].src = "c2"
    /\ input[2].body.type \in OkTypes
    /\ input[3].body.type = "read" /\ input[3].src = "c1"
    /\ Len(output) = 2
    /\ output[1].body.type = "echo_ok"
    /\ output[2].body.type = "read_ok"

\* The panics of the two error kinds, a frame that does not decode and a failed write.
FatalErrors == {ParsePanic, WritePanic}

\* C12: a frame that does not decode, or a failed write, ends the process at that
\* frame: the frame was pulled, nothing is written for it, every request before it
\* has its reply on stdout, and no step follows.
C12_ErrorsAreFatal ==
    [][/\ status \notin FatalErrors
       /\ (Len(input') = Len(input) + 1 /\ Last(input') \notin Frames) => status' = ParsePanic
       /\ status' \in FatalErrors =>
             /\ Len(input') = Len(input) + 1
             /\ output' = output
             /\ Len(output) = Len(RequestFrames(input))]_vars

C12_Witness ==
    /\ status = ParsePanic
    /\ Len(input) = 3
    /\ input[1].body.type = "init"
    /\ input[2].body.type = "generate"
    /\ Len(output) = 2

\* C13: the process terminates, either normally with the input exhausted and every
\* frame handled exactly once, or abnormally at a frame that does not decode or a
\* write that fails.
C13_TerminatesOnFiniteInput ==
    /\ <>(status # "running")
    /\ [](status # "running" => status \in {"exited"} \cup FatalErrors)
    /\ [](status = "exited" =>
            /\ \A k \in DOMAIN input : input[k] \in Frames
            /\ Len(output) = Len(RequestFrames(input)))

\* The part of C13 that is about termination alone.
C13_Terminates == <>(status # "running")

\* The request kinds whose reply draws its msg_id after the handshake.
WorkloadTypes == RequestTypes \ {"init"}

\* C14: handling an Echo, Generate, Broadcast, Read or Topology request leaves the
\* counter at its old value (0 if unset) plus one, and next_msg_id changes only in
\* a step that writes a reply.
C14_CounterStepsByOnePerReply ==
    [][~WriteFailed =>
          /\ \A t \in WorkloadTypes : Handles(t) => next_msg_id' = Some(Counter + 1)
          /\ next_msg_id' # next_msg_id => Replied]_vars

\* C15: an Init with msg_id m leaves the counter at m + 2 whatever it held before,
\* and a Generate, Broadcast, Read or Topology handled right after it is answered
\* with msg_id m + 2.
C15_InitLeavesCounterAtMsgIdPlusTwo ==
    [][/\ (Handles("init") /\ ~WriteFailed) =>
             next_msg_id' = Some(Last(input').body.msg_id + 2)
       /\ \A t \in WorkloadTypes \ {"echo"} :
             (Handles(t) /\ Replied /\ input # <<>> /\ Last(input).body.type = "init") =>
                 Last(output').body.msg_id = Last(input).body.msg_id + 2]_vars

\* C16: a step that handles Broadcast appends the request's value to messages;
\* every other step, a repeated Init and a Topology included, leaves messages as
\* it was.
C16_MessagesAppendOnly ==
    [][IF Handles("broadcast")
       THEN messages' = Append(messages, Last(input').body.message)
       ELSE messages' = messages]_vars

C16_Witness ==
    /\ Len(input) = 3
    /\ input[1].body.type = "broadcast" /\ input[1].body.message = 0
    /\ input[2].body.type = "broadcast" /\ input[2].body.message = 1
    /\ input[3].body.type = "init"
    /\ messages = <<0, 1>>
    /\ status = "running"

\* C17: every frame on stdout is an Ok reply addressed to the sender of the request
\* that triggered it, there are never more of them than requests handled, a step
\* writes at most one frame, and handling Broadcast writes exactly one, BroadcastOk,
\* to the sender, whatever neighbors holds.
C17_OnlyRepliesNoGossip ==
    /\ [](/\ \A k \in DOMAIN output : output[k].body.type \in OkTypes
          /\ Len(output) <= Len(RequestFrames(input)))
    /\ [][/\ output' = output \/ Replied
          /\ (Handles("broadcast") /\ ~WriteFailed) =>
                /\ Replied
                /\ Last(output').body.type = "broadcast_ok"
                /\ Last(output').dest = Last(input').src]_vars

C17_Witness ==
    /\ Len(input) = 3
    /\ input[1].body.type = "init"
    /\ input[2].body.type = "topology"
    /\ input[3].body.type = "broadcast"
    /\ neighbors # <<>>
    /\ Len(output) = 3
    /\ output[3].body.type = "broadcast_ok"
    /\ output[3].dest = input[3].src

\* C18: Echo, Generate and Read leave id, neighbors and messages unchanged; Broadcast
\* leaves id and neighbors unchanged; Topology leaves id and messages unchanged; id
\* changes only in a step that handles Init.
C18_HandlerFrames ==
    [][/\ \A t \in {"echo", "generate", "read"} :
             Handles(t) => UNCHANGED <<id, neighbors, messages>>
       /\ Handles("broadcast") => UNCHANGED <<id, neighbors>>
       /\ Handles("topology") => UNCHANGED <<id, messages>>
       /\ id' # id => Handles("init")]_vars

C18_Witness ==
    /\ Len(input) = 3
    /\ input[1].body.type = "init"
    /\ input[2].body.type = "broadcast"
    /\ input[3].body.type = "read"
    /\ id # ""
    /\ neighbors # <<>>
    /\ messages # <<>>
    /\ Len(output) = 3

\* C19: a reply's dest is the src of the request it answers and its src is the
\* node's id when the reply is built: the node_id the Init assigns for InitOk, the
\* id held before the step for the others, which is "" before any Init.
C19_ReplyAddressing ==
    [][\A t \in RequestTypes :
          (Handles(t) /\ Replied) =>
              /\ Last(output').dest = Last(input').src
              /\ Last(output').src = IF t = "init" THEN Last(input').body.node_id ELSE id
              /\ (\A k \in DOMAIN input' : input'[k].body.type # "init") =>
                    Last(output').src = ""]_vars

C19_Witness ==
    /\ Len(input) = 3
    /\ input[1].body.type = "echo" /\ input[1].src = "c2"
    /\ input[2].body.type = "init" /\ input[2].src = "c1" /\ input[2].body.node_id = "n2"
    /\ input[3].body.type = "read" /\ input[3].src = "c2"
    /\ Len(output) = 3
    /\ output[1].src = "" /\ output[1].dest = "c2"
    /\ output[2].src = "n2" /\ output[2].dest = "c1"
    /\ output[3].src = "n2" /\ output[3].dest = "c2"

\* C20: next_msg_id stays a u32 and no addition overflows: no step ends in the
\* overflow panic, an answered Init leaves the counter at its msg_id plus 2, the
\* largest msg_ids included, and every other answered request leaves it one higher.
C20_NoCounterOverflow ==
    /\ [](Counter \in 0..U32Max /\ status # OverflowPanic)
    /\ [][~WriteFailed =>
            /\ Handles("init") =>
                  /\ Replied
                  /\ Last(output').body.type = "init_ok"
                  /\ Counter' = Last(input').body.msg_id + 2
            /\ \A t \in WorkloadTypes : Handles(t) => Counter' = Counter + 1]_vars

====
